---- MODULE Spec2Model ----
(***************************************************************************)
(* Model of Backend/server.js: an express server with four asynchronous    *)
(* request handlers (POST /register, POST /login, POST /api/chat,          *)
(* GET /api/history) over two mongoose collections (User, Chat), bcrypt    *)
(* and one outgoing completion call (getAI21Response).                     *)
(*                                                                         *)
(* Every handler is an async function: it runs atomically up to its next   *)
(* `await`, and handlers of different requests interleave at the awaits.   *)
(* One action models one such segment.  A database operation takes effect  *)
(* at one instant (the action that performs it); the handler continues in  *)
(* a later segment.                                                        *)
(*                                                                         *)
(* Text is modelled as follows: fullName, username and the chat message    *)
(* are strings ("" is the empty string); a password is the sequence of its *)
(* bytes (<<>> is the empty string), because bcrypt reads a bounded prefix *)
(* of it; a reply is a sequence of tokens (" " is a whitespace token),     *)
(* because getAI21Response trims it.  A field the request does not carry   *)
(* is a field missing from the body record.  The two chat texts that start  *)
(* with a warning sign in the source are written without it.               *)
(*                                                                         *)
(* The unique index on User.username is declared in the schema and built    *)
(* by mongoose after the connection is made; the server listens without    *)
(* waiting for it, so requests are served while the index is still to be   *)
(* built, and after a build that failed.                                   *)
(*                                                                         *)
(* The environment: the store is available or not (an operation on an      *)
(* unavailable store throws); the completion endpoint answers a fetch in   *)
(* any of its ways; Date.now reads the wall clock, which can be set back,   *)
(* so a reading can be below an earlier one.                                *)
(***************************************************************************)
EXTENDS Integers, Sequences, FiniteSets, TLC

VARIABLES users, chats, reqs, storageUp, usernameIndex

vars == <<users, chats, reqs, storageUp, usernameIndex>>

(***************************** bounds **************************************)
\* requests per behaviour of the full specification
MaxReqs == 2
\* requests per behaviour of the register/login specification
MaxAuthReqs == 2
\* requests per behaviour of the chat/history specification
MaxChatReqs == 2
\* chat and history requests per behaviour of the history specification
MaxChats == 3
MaxHistories == 1
\* the readings of the clock are 0..MaxClock
MaxClock == 2

(************************* program constants *******************************)
\* bcrypt.hash(password, 10)
SaltRounds == 10
\* the bcrypt package hashes only the first 72 bytes of its input
BcryptMaxBytes == 72

MsgAllFields == "All fields required"
MsgUserExists == "User already exists"
MsgRegistered == "Registration successful"
MsgRegisterFailed == "Registration failed"
MsgUserNotFound == "User not found"
MsgIncorrectPassword == "Incorrect password"
MsgLoggedIn == "Login successful"
MsgLoginFailed == "Login failed"
MessageRequired == <<"Message required">>
FallbackReply == <<"Sorry, I couldn't process that right now. Please try again later.">>
ChatErrorReply == <<"Error processing your request.">>

(***************************** inputs **************************************)
Min(a, b) == IF a < b THEN a ELSE b

Repeat(x, n) == [i \in 1..n |-> x]

\* two passwords longer than 72 bytes that agree on their first 72 bytes
LongPw1 == Repeat(97, BcryptMaxBytes) \o <<120>>
LongPw2 == Repeat(97, BcryptMaxBytes) \o <<121>>
Pw1 == <<112, 119, 49>>
PwWrong == <<119, 114>>

Salts == {1, 2}
Messages == {"hi", "yo"}

\* req.body of POST /register with every field present and non-empty
RegisterBodies ==
    {[fullName |-> "A B", username |-> "ab", password |-> Pw1],
     [fullName |-> "C D", username |-> "ab", password |-> LongPw1],
     [fullName |-> "C D", username |-> "cd", password |-> Pw1]}

\* req.body of POST /register with a field missing or empty
BadRegisterBodies ==
    {[username |-> "ab", password |-> Pw1],
     [fullName |-> "A B", username |-> "", password |-> Pw1],
     [fullName |-> "A B", username |-> "ab"]}

\* req.body of POST /login with both fields present and non-empty
LoginBodies ==
    {[username |-> "ab", password |-> Pw1],
     [username |-> "ab", password |-> PwWrong],
     [username |-> "ab", password |-> LongPw1],
     [username |-> "ab", password |-> LongPw2],
     [username |-> "cd", password |-> Pw1]}

\* req.body of POST /login with a field missing or empty
BadLoginBodies ==
    {[password |-> Pw1], [username |-> "ab", password |-> <<>>]}

\* req.body of POST /api/chat with a message
ChatBodies ==
    {[message |-> "hi", username |-> "ab"],
     [message |-> "yo", username |-> "cd"],
     [message |-> "hi"],
     [message |-> "yo", username |-> ""]}

\* req.body of POST /api/chat without a message
BadChatBodies ==
    {[username |-> "ab"], [message |-> "", username |-> "ab"], [message |-> ""]}

\* req.query of GET /api/history with a username
HistoryQueries == {[username |-> "ab"]}

\* req.query of GET /api/history without one
BadHistoryQueries == {[username |-> ""], [other |-> "1"]}

\* what the completion endpoint can answer to fetch(): the transport fails,
\* or an HTTP response arrives with a status and a JSON body
ProviderOutcomes ==
    {[net |-> FALSE, status |-> 0, choices |-> <<>>],
     [net |-> TRUE, status |-> 500, choices |-> <<>>],
     [net |-> TRUE, status |-> 200, choices |-> <<>>],
     [net |-> TRUE, status |-> 200, choices |-> <<[content |-> <<" ">>]>>],
     [net |-> TRUE, status |-> 200, choices |-> <<[content |-> <<" ", "Hello", " ">>]>>]}

\* the inputs of the history specification
LogChatBodies ==
    {[message |-> "hi", username |-> "ab"],
     [message |-> "yo", username |-> "ab"],
     [message |-> "hi", username |-> "cd"]}

\* the well-formed inputs of the full specification
MixRegisterBodies ==
    {[fullName |-> "A B", username |-> "ab", password |-> Pw1],
     [fullName |-> "C D", username |-> "ab", password |-> LongPw1]}

MixLoginBodies == {[username |-> "ab", password |-> Pw1]}

MixChatBodies == {[message |-> "hi", username |-> "ab"]}

(*************************** pure functions ********************************)
\* a presence check that tests for undefined alone
Falsy_UndefinedOnly(body, f) == f \notin DOMAIN body

\* JavaScript's !x for a destructured field: undefined and "" are falsy
Falsy(body, f) ==
    \/ f \notin DOMAIN body
    \/ body[f] = (IF f = "password" THEN <<>> ELSE "")

IsSpace(t) == t = " "

RECURSIVE TrimStart(_)
TrimStart(s) ==
    IF s = <<>> THEN <<>>
    ELSE IF IsSpace(Head(s)) THEN TrimStart(Tail(s)) ELSE s

RECURSIVE TrimEnd(_)
TrimEnd(s) ==
    IF s = <<>> THEN <<>>
    ELSE IF IsSpace(s[Len(s)]) THEN TrimEnd(SubSeq(s, 1, Len(s) - 1)) ELSE s

\* String.prototype.trim
Trim(s) == TrimEnd(TrimStart(s))

\* resp.ok of node-fetch
RespOk(out) == out.status >= 200 /\ out.status <= 299

\* getAI21Response(message) given what the provider answers: the reply, or
\* the error it throws
getAI21Response(out) ==
    IF ~out.net THEN [threw |-> "transport", value |-> <<>>]
    ELSE IF ~RespOk(out) THEN [threw |-> "non2xx", value |-> <<>>]
    ELSE LET reply == IF out.choices = <<>> THEN <<>>
                      ELSE Trim(out.choices[1].content)
         IN IF reply = <<>> THEN [threw |-> "empty", value |-> <<>>]
            ELSE [threw |-> "no", value |-> reply]

\* a catch that leaves the reply empty
ChatReply_NoFallback(out) == getAI21Response(out).value

\* the try/catch around getAI21Response in POST /api/chat
ChatReply(out) ==
    LET r == getAI21Response(out)
    IN IF r.threw # "no" THEN FallbackReply ELSE r.value

\* the bytes bcrypt reads
BcryptInput(pw) == SubSeq(pw, 1, Min(Len(pw), BcryptMaxBytes))

\* the digest of a password under a salt and a cost (an ideal hash: equal
\* digests only for equal inputs)
BcryptDigest(pw, salt, rounds) == <<rounds, salt>> \o BcryptInput(pw)

\* bcrypt.hash(password, rounds) with the salt it generated
BcryptHash(pw, salt, rounds) ==
    [rounds |-> rounds, salt |-> salt, digest |-> BcryptDigest(pw, salt, rounds)]

\* bcrypt.compare(password, hash)
BcryptCompare(pw, h) == h.digest = BcryptDigest(pw, h.salt, h.rounds)

\* the documents of a collection with the given username
Matching(coll, username) == {d \in coll : d.username = username}

\* Model.findOne({username}): the documents it can answer with (which of
\* several matching documents is the store's choice)
FindOne(coll, username) == Matching(coll, username)

\* the unique index on User.username refuses an insert: only a built index
\* refuses anything
UniqueIndexViolated(coll, doc) ==
    /\ usernameIndex = "built"
    /\ Matching(coll, doc.username) # {}

\* a find without the sort: the matching documents in any order
SortedFind_Unsorted(coll, username) ==
    LET M == Matching(coll, username)
        n == Cardinality(M)
    IN {q \in [1..n -> M] : \A a, b \in 1..n : a # b => q[a] # q[b]}

\* Chat.find({username}).sort({createdAt: 1}): every order of the matching
\* documents that ascends in createdAt (the order of equal keys is the
\* store's choice)
SortedFind(coll, username) ==
    LET M == Matching(coll, username)
        n == Cardinality(M)
    IN {q \in [1..n -> M] :
          /\ \A a, b \in 1..n : a # b => q[a] # q[b]
          /\ \A a, b \in 1..n : a < b => q[a].createdAt <= q[b].createdAt}

(***************************** requests ************************************)
NoRes == [status |-> 0, body |-> [none |-> TRUE]]
NoDoc == [none |-> TRUE]
\* no response of the completion endpoint is held
NoResp == [net |-> TRUE, status |-> 0, choices |-> <<>>]

Res(status, body) == [status |-> status, body |-> body]

Finished == {i \in DOMAIN reqs : reqs[i].pc = "done"}

\* What is recorded of the moment a request arrives, for the properties that
\* speak of it: the requests already answered (after, register and history
\* requests), whether the store was available (up, history requests without
\* a username), whether a User with the request's username was stored
\* (stored, register requests).
Arrival(kind, body) ==
    [after |-> IF kind \in {"register", "history"} THEN Finished ELSE {},
     up |-> IF kind = "history" /\ Falsy(body, "username") THEN storageUp ELSE TRUE,
     stored |-> IF kind = "register" /\ "username" \in DOMAIN body
                THEN Matching(users, body.username) # {} ELSE FALSE]

\* a request as its handler starts.  calls lists the awaited calls it has
\* made, err the error its outer catch received, provider how the completion
\* call ended, resp is the response of the completion endpoint whose body is
\* awaited, reply and doc are the handler's local variables
NewReq(kind, body) ==
    [kind |-> kind, body |-> body, pc |-> "start", res |-> NoRes,
     calls |-> <<>>, err |-> "none", at |-> Arrival(kind, body),
     provider |-> "none", resp |-> NoResp, reply |-> <<>>, doc |-> NoDoc]

\* res.status(status).json(body)
Respond(r, status, body) ==
    [r EXCEPT !.pc = "done", !.res = Res(status, body), !.doc = NoDoc]

Call(r, name, pc) == [r EXCEPT !.calls = Append(@, name), !.pc = pc]

At(i, kind, pc) ==
    /\ i \in DOMAIN reqs
    /\ reqs[i].kind = kind
    /\ reqs[i].pc = pc

Init ==
    /\ users = {}
    /\ chats = {}
    /\ reqs = <<>>
    /\ storageUp = TRUE
    /\ usernameIndex = "pending"

(*************************** POST /register ********************************)
RegisterInvalid(body) ==
    Falsy(body, "fullName") \/ Falsy(body, "username") \/ Falsy(body, "password")

\* lines 38-42: presence check, then the call of User.findOne
SubmitRegister(room, bodies) ==
    /\ room
    /\ \E body \in bodies :
         LET r == NewReq("register", body)
         IN reqs' = Append(reqs,
                IF RegisterInvalid(body)
                THEN Respond(r, 400, [success |-> FALSE, message |-> MsgAllFields])
                ELSE Call(r, "User.findOne", "findOne"))
    /\ UNCHANGED <<users, chats, storageUp, usernameIndex>>

\* lines 51-54: the outer catch of the register handler
RegisterCatch(r, error) ==
    Respond([r EXCEPT !.err = error], 500,
            [success |-> FALSE, message |-> MsgRegisterFailed])

\* a handler without the existence check
ExistingUser_Never(coll, username) == FALSE

\* lines 42-43: existingUser is truthy
ExistingUser(coll, username) == Matching(coll, username) # {}

\* new User({fullName, username, password: hashedPassword}); the id is the
\* document's own
NewUser(i, body, hashedPassword) ==
    [id |-> i, fullName |-> body.fullName, username |-> body.username,
     password |-> hashedPassword]

\* lines 42-46: findOne answers or throws; existence check; bcrypt.hash
\* called
RegFindOne(i) ==
    /\ At(i, "register", "findOne")
    /\ LET r == reqs[i]
       IN IF ~storageUp
          THEN reqs' = [reqs EXCEPT ![i] = RegisterCatch(r, "unavailable")]
          ELSE IF ExistingUser(users, r.body.username)
          THEN reqs' = [reqs EXCEPT ![i] =
                   Respond(r, 400, [success |-> FALSE, message |-> MsgUserExists])]
          ELSE reqs' = [reqs EXCEPT ![i] = Call(r, "bcrypt.hash", "hash")]
    /\ UNCHANGED <<users, chats, storageUp, usernameIndex>>

\* lines 46-48: bcrypt.hash settles; new User; save called
RegHash(i) ==
    /\ At(i, "register", "hash")
    /\ \E salt \in Salts :
         reqs' = [reqs EXCEPT ![i] =
           [Call(reqs[i], "User.save", "save")
              EXCEPT !.doc = NewUser(i, reqs[i].body,
                         BcryptHash(reqs[i].body.password, salt, SaltRounds))]]
    /\ UNCHANGED <<users, chats, storageUp, usernameIndex>>

\* line 48: the insert is applied, or save throws: the store is unavailable,
\* or its unique index refuses the document (E11000)
RegSave(i) ==
    /\ At(i, "register", "save")
    /\ LET r == reqs[i]
       IN IF ~storageUp
          THEN /\ reqs' = [reqs EXCEPT ![i] = RegisterCatch(r, "unavailable")]
               /\ users' = users
          ELSE IF UniqueIndexViolated(users, r.doc)
          THEN /\ reqs' = [reqs EXCEPT ![i] = RegisterCatch(r, "E11000")]
               /\ users' = users
          ELSE /\ users' = users \cup {r.doc}
               /\ reqs' = [reqs EXCEPT ![i].pc = "respond"]
    /\ UNCHANGED <<chats, storageUp, usernameIndex>>

\* line 50
RegRespond(i) ==
    /\ At(i, "register", "respond")
    /\ reqs' = [reqs EXCEPT ![i] =
           Respond(reqs[i], 200, [success |-> TRUE, message |-> MsgRegistered])]
    /\ UNCHANGED <<users, chats, storageUp, usernameIndex>>

(***************************** POST /login *********************************)
LoginInvalid(body) == Falsy(body, "username") \/ Falsy(body, "password")

\* lines 59-63
SubmitLogin(room, bodies) ==
    /\ room
    /\ \E body \in bodies :
         LET r == NewReq("login", body)
         IN reqs' = Append(reqs,
                IF LoginInvalid(body)
                THEN Respond(r, 400, [success |-> FALSE, message |-> MsgAllFields])
                ELSE Call(r, "User.findOne", "findOne"))
    /\ UNCHANGED <<users, chats, storageUp, usernameIndex>>

\* lines 66-69: what the handler answers once bcrypt.compare has settled
LoginResult(user, body) ==
    IF ~BcryptCompare(body.password, user.password)
    THEN Res(401, [success |-> FALSE, message |-> MsgIncorrectPassword])
    ELSE Res(200, [success |-> TRUE, message |-> MsgLoggedIn,
                   username |-> user.username])

\* lines 63-66 and 70-73: findOne answers or throws; without a user the
\* handler answers, with one it keeps it (doc) and calls bcrypt.compare
LoginFindOne(i) ==
    /\ At(i, "login", "findOne")
    /\ LET r == reqs[i]
       IN IF ~storageUp
          THEN reqs' = [reqs EXCEPT ![i] =
                   Respond([r EXCEPT !.err = "unavailable"], 500,
                           [success |-> FALSE, message |-> MsgLoginFailed])]
          ELSE IF Matching(users, r.body.username) = {}
          THEN reqs' = [reqs EXCEPT ![i] =
                   Respond(r, 404, [success |-> FALSE, message |-> MsgUserNotFound])]
          ELSE \E user \in FindOne(users, r.body.username) :
                 reqs' = [reqs EXCEPT ![i] =
                   [Call(r, "bcrypt.compare", "compare") EXCEPT !.doc = user]]
    /\ UNCHANGED <<users, chats, storageUp, usernameIndex>>

\* lines 66-69: bcrypt.compare settles and the handler answers
LoginCompare(i) ==
    /\ At(i, "login", "compare")
    /\ LET out == LoginResult(reqs[i].doc, reqs[i].body)
       IN reqs' = [reqs EXCEPT ![i] = Respond(reqs[i], out.status, out.body)]
    /\ UNCHANGED <<users, chats, storageUp, usernameIndex>>

(**************************** POST /api/chat *******************************)
\* lines 110-115: presence check, then the call of getAI21Response
SubmitChat(room, bodies) ==
    /\ room
    /\ \E body \in bodies :
         LET r == NewReq("chat", body)
         IN reqs' = Append(reqs,
                IF Falsy(body, "message")
                THEN Respond(r, 400, [reply |-> MessageRequired])
                ELSE Call(r, "getAI21Response", "fetch"))
    /\ UNCHANGED <<users, chats, storageUp, usernameIndex>>

\* Date.now(): a reading of the wall clock.  Nothing keeps a reading from
\* being equal to or below an earlier one (the clock can be set back), so
\* any reading can follow any other.
DateNow == 0..MaxClock

\* new Chat({username, user: message, bot: reply}): createdAt defaults to
\* Date.now() at construction, the id is the document's own
NewChat(i, body, reply, clock) ==
    [id |-> i, username |-> body.username, user |-> body.message,
     bot |-> reply, createdAt |-> clock]

\* lines 92-104 and 114-126: getAI21Response returns or throws on what the
\* endpoint answered; the reply is chosen; with a username the entry is
\* built (reading the clock) and its save called, without one the reply is
\* sent
ChatSettle(i, out) ==
    LET r == [reqs[i] EXCEPT !.provider = getAI21Response(out).threw,
                             !.reply = ChatReply(out),
                             !.resp = NoResp]
    IN IF ~Falsy(r.body, "username")
       THEN \E t \in DateNow :
              reqs' = [reqs EXCEPT ![i] =
                   [Call(r, "Chat.save", "save")
                      EXCEPT !.doc = NewChat(i, r.body, r.reply, t)]]
       ELSE reqs' = [reqs EXCEPT ![i] = Respond(r, 200, [reply |-> r.reply])]

\* line 83: fetch settles (outcomes gives, for each message, the answers the
\* provider can give).  A transport failure is thrown through to the
\* handler's catch at once; a response is kept and its body awaited
\* (resp.text() at line 93, resp.json() at line 98)
ChatFetch(i, outcomes) ==
    /\ At(i, "chat", "fetch")
    /\ \E out \in outcomes[reqs[i].body.message] :
         IF ~out.net
         THEN ChatSettle(i, out)
         ELSE reqs' = [reqs EXCEPT ![i] =
                  [reqs[i] EXCEPT !.resp = out, !.pc = "body"]]
    /\ UNCHANGED <<users, chats, storageUp, usernameIndex>>

\* lines 93-126: the body of the response arrives
ChatBody(i) ==
    /\ At(i, "chat", "body")
    /\ ChatSettle(i, reqs[i].resp)
    /\ UNCHANGED <<users, chats, storageUp, usernameIndex>>

\* a catch that answers with the computed reply
ChatCatch_Swallow(r, error) ==
    Respond([r EXCEPT !.err = error], 200, [reply |-> r.reply])

\* lines 127-130: the outer catch of the chat handler
ChatCatch(r, error) ==
    Respond([r EXCEPT !.err = error], 500, [reply |-> ChatErrorReply])

\* a save that is not awaited: the reply is sent, the insert is still to come
ChatSave_NotAwaited(i) ==
    /\ At(i, "chat", "save")
    /\ reqs' = [reqs EXCEPT ![i] = Respond(reqs[i], 200, [reply |-> reqs[i].reply])]
    /\ UNCHANGED <<users, chats, storageUp, usernameIndex>>

\* line 123: the insert is applied, or the store is unavailable and save
\* throws
ChatSave(i) ==
    /\ At(i, "chat", "save")
    /\ IF ~storageUp
       THEN /\ reqs' = [reqs EXCEPT ![i] = ChatCatch(reqs[i], "unavailable")]
            /\ chats' = chats
       ELSE /\ chats' = chats \cup {reqs[i].doc}
            /\ reqs' = [reqs EXCEPT ![i].pc = "respond"]
    /\ UNCHANGED <<users, storageUp, usernameIndex>>

\* line 126
ChatRespond(i) ==
    /\ At(i, "chat", "respond")
    /\ reqs' = [reqs EXCEPT ![i] =
           Respond(reqs[i], 200, [reply |-> reqs[i].reply])]
    /\ UNCHANGED <<users, chats, storageUp, usernameIndex>>

(**************************** GET /api/history *****************************)
\* a handler that returns early only when the parameter is undefined
SubmitHistory_UndefinedOnly(room, queries) ==
    /\ room
    /\ \E query \in queries :
         LET r == NewReq("history", query)
         IN reqs' = Append(reqs,
                IF "username" \notin DOMAIN query
                THEN Respond(r, 200, [list |-> <<>>])
                ELSE Call(r, "Chat.find", "find"))
    /\ UNCHANGED <<users, chats, storageUp, usernameIndex>>

\* lines 134-138
SubmitHistory(room, queries) ==
    /\ room
    /\ \E query \in queries :
         LET r == NewReq("history", query)
         IN reqs' = Append(reqs,
                IF Falsy(query, "username")
                THEN Respond(r, 200, [list |-> <<>>])
                ELSE Call(r, "Chat.find", "find"))
    /\ UNCHANGED <<users, chats, storageUp, usernameIndex>>

\* lines 138-143
HistoryFind(i) ==
    /\ At(i, "history", "find")
    /\ IF ~storageUp
       THEN reqs' = [reqs EXCEPT ![i] =
                Respond([reqs[i] EXCEPT !.err = "unavailable"], 500, [list |-> <<>>])]
       ELSE \E history \in SortedFind(chats, reqs[i].body.username) :
              reqs' = [reqs EXCEPT ![i] = Respond(reqs[i], 200, [list |-> history])]
    /\ UNCHANGED <<users, chats, storageUp, usernameIndex>>

(***************************** environment *********************************)
\* the connection to the store is lost or restored
StorageToggle ==
    /\ storageUp' = ~storageUp
    /\ UNCHANGED <<users, chats, reqs, usernameIndex>>

\* two documents of the collection have one username
HasDuplicates(coll) ==
    \E d1, d2 \in coll : d1 # d2 /\ d1.username = d2.username

\* mongoose builds the index declared by unique: true once, after connect,
\* while requests are served.  The build fails if the store is unavailable
\* or the collection already holds two documents with one username; nothing
\* repeats a failed build.
BuildUsernameIndex ==
    /\ usernameIndex = "pending"
    /\ usernameIndex' = IF storageUp /\ ~HasDuplicates(users)
                        THEN "built" ELSE "failed"
    /\ UNCHANGED <<users, chats, reqs, storageUp>>

\* the provider answers a message in any of the ways of ProviderOutcomes
AnyOutcome == [message \in Messages |-> ProviderOutcomes]

\* the provider answers a message with a completion that depends on it
Completion ==
    [message \in Messages |->
       {[net |-> TRUE, status |-> 200,
         choices |-> <<[content |-> <<" ", "re:", message, " ">>]>>]}]

NumOf(kind) == Cardinality({i \in DOMAIN reqs : reqs[i].kind = kind})

(*************************** specifications ********************************)
\* all four handlers, with and without their required fields
Next ==
    \/ SubmitRegister(Len(reqs) < MaxReqs, MixRegisterBodies \cup BadRegisterBodies)
    \/ SubmitLogin(Len(reqs) < MaxReqs, MixLoginBodies \cup BadLoginBodies)
    \/ SubmitChat(Len(reqs) < MaxReqs, MixChatBodies \cup BadChatBodies)
    \/ SubmitHistory(Len(reqs) < MaxReqs, HistoryQueries \cup BadHistoryQueries)
    \/ \E i \in DOMAIN reqs :
         \/ RegFindOne(i)
         \/ RegHash(i)
         \/ RegSave(i)
         \/ RegRespond(i)
         \/ LoginFindOne(i)
         \/ LoginCompare(i)
         \/ ChatFetch(i, Completion)
         \/ ChatBody(i)
         \/ ChatSave(i)
         \/ ChatRespond(i)
         \/ HistoryFind(i)
    \/ StorageToggle
    \/ BuildUsernameIndex

Spec == Init /\ [][Next]_vars

\* register and login requests
NextAuth ==
    \/ SubmitRegister(Len(reqs) < MaxAuthReqs, RegisterBodies)
    \/ SubmitLogin(Len(reqs) < MaxAuthReqs, LoginBodies)
    \/ \E i \in DOMAIN reqs :
         \/ RegFindOne(i)
         \/ RegHash(i)
         \/ RegSave(i)
         \/ RegRespond(i)
         \/ LoginFindOne(i)
         \/ LoginCompare(i)
    \/ StorageToggle
    \/ BuildUsernameIndex

SpecAuth == Init /\ [][NextAuth]_vars

\* chat and history requests under every answer of the provider
NextChat ==
    \/ SubmitChat(Len(reqs) < MaxChatReqs, ChatBodies)
    \/ SubmitHistory(Len(reqs) < MaxChatReqs, HistoryQueries)
    \/ \E i \in DOMAIN reqs :
         \/ ChatFetch(i, AnyOutcome)
         \/ ChatBody(i)
         \/ ChatSave(i)
         \/ ChatRespond(i)
         \/ HistoryFind(i)
    \/ StorageToggle

SpecChat == Init /\ [][NextChat]_vars

\* several chats of two users and the history requests of one of them
NextHistory ==
    \/ SubmitChat(NumOf("chat") < MaxChats, LogChatBodies)
    \/ SubmitHistory(NumOf("history") < MaxHistories, HistoryQueries)
    \/ \E i \in DOMAIN reqs :
         \/ ChatFetch(i, Completion)
         \/ ChatBody(i)
         \/ ChatSave(i)
         \/ ChatRespond(i)
         \/ HistoryFind(i)
    \/ StorageToggle

SpecHistory == Init /\ [][NextHistory]_vars

(****************************** properties *********************************)
IsDone(i) == reqs[i].pc = "done"

Requests(kind) == {i \in DOMAIN reqs : reqs[i].kind = kind}

\* the request carries the field and it is not the empty string
NonEmpty(body, f) ==
    /\ f \in DOMAIN body
    /\ IF f = "password" THEN Len(body[f]) > 0 ELSE body[f] # ""

UsernameOf(i) ==
    IF "username" \in DOMAIN reqs[i].body THEN reqs[i].body.username ELSE ""

\* the User documents request i has stored
StoredBy(i) == {d \in users : d.id = i}

\* the ChatEntry documents request i has stored
LoggedBy(i) == {d \in chats : d.id = i}

\* register requests with all three fields
ValidRegisters ==
    {i \in Requests("register") :
       /\ NonEmpty(reqs[i].body, "fullName")
       /\ NonEmpty(reqs[i].body, "username")
       /\ NonEmpty(reqs[i].body, "password")}

Succeeded(i) ==
    /\ IsDone(i)
    /\ reqs[i].res.status = 200
    /\ reqs[i].res.body.success

\* C1 as claimed: in every reachable state the user store holds at most one
\* User record per username, whatever requests have run and however they
\* interleaved.
C1_OneUserPerUsername ==
    \A d1, d2 \in users : d1.username = d2.username => d1 = d2

\* the register requests for the username of i that had succeeded and been
\* answered when i arrived
PriorSuccess(i) ==
    {j \in reqs[i].at.after :
       j \in ValidRegisters /\ UsernameOf(j) = UsernameOf(i) /\ Succeeded(j)}

IsDuplicateUser(i) ==
    /\ reqs[i].res.status = 400
    /\ reqs[i].res.body = [success |-> FALSE, message |-> MsgUserExists]

\* C2 as claimed: a register request for u issued when no User for u is
\* stored succeeds and stores a User for u; every register request for u
\* issued after that one has completed fails with DuplicateUser and leaves
\* the user store unchanged.
C2_Original ==
    \A i \in ValidRegisters :
       IsDone(i) =>
         /\ ~reqs[i].at.stored =>
              /\ Succeeded(i)
              /\ \E d \in StoredBy(i) : d.username = UsernameOf(i)
         /\ PriorSuccess(i) # {} =>
              /\ IsDuplicateUser(i)
              /\ StoredBy(i) = {}

\* no other register request for the username of i was in progress while i
\* was
Alone(i) ==
    \A j \in ValidRegisters :
       (j # i /\ UsernameOf(j) = UsernameOf(i)) =>
          (j \in reqs[i].at.after \/ i \in reqs[j].at.after)

\* C2 amended: with the store available to it and no other register request
\* for u in progress at the same time, a register request for u issued when
\* no User for u is stored succeeds and stores one User for u; every register
\* request for u issued after that one has completed, with the store
\* available to it, fails with DuplicateUser after its lookup alone; and a
\* register request that does not succeed stores nothing.
C2_Amended ==
    \A i \in ValidRegisters :
       IsDone(i) =>
         /\ (~reqs[i].at.stored /\ reqs[i].err # "unavailable" /\ Alone(i)) =>
              /\ Succeeded(i)
              /\ Cardinality(StoredBy(i)) = 1
              /\ \A d \in StoredBy(i) : d.username = UsernameOf(i)
              /\ Matching(users, UsernameOf(i)) = StoredBy(i)
         /\ (PriorSuccess(i) # {} /\ reqs[i].err # "unavailable") =>
              /\ IsDuplicateUser(i)
              /\ reqs[i].calls = <<"User.findOne">>
         /\ ~Succeeded(i) => StoredBy(i) = {}

\* a second register request for a registered username, with another
\* fullName and another password, arrived after the first was answered and
\* was refused
C2_Witness ==
    \E i, j \in ValidRegisters :
       /\ Succeeded(i)
       /\ i \in reqs[j].at.after
       /\ UsernameOf(i) = UsernameOf(j)
       /\ reqs[i].body.fullName # reqs[j].body.fullName
       /\ reqs[i].body.password # reqs[j].body.password
       /\ IsDone(j)
       /\ IsDuplicateUser(j)
       /\ Cardinality(users) = 1

\* the password the User document was registered with
RegisteredPassword(d) == reqs[d.id].body.password

\* C3 as claimed: a login with both fields, answered with the store
\* available to its lookup, gets UserNotFound when no User has its username,
\* InvalidCredentials when one has and the password does not verify against
\* the stored hash, success with the same username when the password is the
\* one the User registered with, nothing else, and never success for a
\* password other than the registered one.
C3_LoginOutcome ==
    [][\A i \in Requests("login") :
         (reqs[i].pc # "done" /\ reqs'[i].pc = "done"
            /\ reqs'[i].err # "unavailable") =>
            LET body == reqs[i].body
                stored == Matching(users, body.username)
                res == reqs'[i].res
            IN /\ stored = {} =>
                    /\ res.status = 404
                    /\ res.body = [success |-> FALSE, message |-> MsgUserNotFound]
               /\ (stored # {} /\ \A d \in stored :
                                    ~BcryptCompare(body.password, d.password)) =>
                    /\ res.status = 401
                    /\ res.body = [success |-> FALSE,
                                   message |-> MsgIncorrectPassword]
               /\ (\E d \in stored : RegisteredPassword(d) = body.password) =>
                    /\ res.status = 200
                    /\ res.body = [success |-> TRUE, message |-> MsgLoggedIn,
                                   username |-> body.username]
               /\ res.status \in {404, 401, 200}
               /\ res.status = 200 =>
                    \E d \in stored : RegisteredPassword(d) = body.password
      ]_vars

\* chat requests that carry a message
ChatsWithMessage ==
    {i \in Requests("chat") : NonEmpty(reqs[i].body, "message")}

\* the completion call of chat request i failed in one of its three ways
ProviderFailed(i) == reqs[i].provider \in {"non2xx", "empty", "transport"}

\* C4: a chat request with a message whose completion call fails (non-2xx,
\* 2xx without a reply, transport failure), with the store available, ends
\* with a success response carrying the fixed non-empty degraded reply; with
\* a username exactly one ChatEntry of that request is stored, with that
\* username, the message and the degraded reply; without one, none.
C4_DegradedReply ==
    \A i \in ChatsWithMessage :
       (IsDone(i) /\ ProviderFailed(i) /\ reqs[i].err # "unavailable") =>
          /\ reqs[i].res = Res(200, [reply |-> FallbackReply])
          /\ Trim(FallbackReply) # <<>>
          /\ IF NonEmpty(reqs[i].body, "username")
             THEN /\ Cardinality(LoggedBy(i)) = 1
                  /\ \A d \in LoggedBy(i) :
                       /\ d.username = reqs[i].body.username
                       /\ d.user = reqs[i].body.message
                       /\ d.bot = FallbackReply
             ELSE LoggedBy(i) = {}

\* two chats with a username were answered with the degraded reply and
\* logged, one after a 2xx answer whose content trims to nothing, one after a
\* transport failure
C4_Witness ==
    \E i, j \in ChatsWithMessage :
       /\ IsDone(i) /\ IsDone(j)
       /\ reqs[i].provider = "empty" /\ reqs[j].provider = "transport"
       /\ reqs[i].res.status = 200 /\ reqs[j].res.status = 200
       /\ \E d \in LoggedBy(i) : d.bot = FallbackReply
       /\ \E d \in LoggedBy(j) : d.bot = FallbackReply

\* C5: a chat request with a message and a username whose ChatEntry cannot
\* be persisted ends with a 5xx response that does not carry the computed
\* reply, whether the completion call succeeded or failed, and stores
\* nothing; a chat request whose persistence did not fail is answered with
\* success, so a provider failure alone never gives a failure response.
C5_PersistenceSurfaces ==
    \A i \in ChatsWithMessage :
       IsDone(i) =>
          /\ (NonEmpty(reqs[i].body, "username") /\ reqs[i].err = "unavailable") =>
                /\ reqs[i].res.status \in 500..599
                /\ reqs[i].res.body.reply # reqs[i].reply
                /\ LoggedBy(i) = {}
          /\ reqs[i].err = "none" => reqs[i].res.status = 200
          /\ reqs[i].res.status # 200 =>
                (reqs[i].err = "unavailable" /\ reqs[i].calls[Len(reqs[i].calls)] = "Chat.save")

\* the save of two chats failed, one after a real completion and one after a
\* provider failure
C5_Witness ==
    \E i, j \in ChatsWithMessage :
       /\ IsDone(i) /\ IsDone(j)
       /\ reqs[i].err = "unavailable" /\ reqs[j].err = "unavailable"
       /\ reqs[i].provider = "no" /\ ProviderFailed(j)
       /\ reqs[i].res.status = 500 /\ reqs[j].res.status = 500

\* the request fails the presence validation of its handler
FailsValidation(i) ==
    LET body == reqs[i].body
    IN \/ /\ reqs[i].kind = "register"
          /\ ~(NonEmpty(body, "fullName") /\ NonEmpty(body, "username")
                 /\ NonEmpty(body, "password"))
       \/ /\ reqs[i].kind = "login"
          /\ ~(NonEmpty(body, "username") /\ NonEmpty(body, "password"))
       \/ /\ reqs[i].kind = "chat"
          /\ ~NonEmpty(body, "message")

\* C6: a register, login or chat request that fails presence validation is
\* answered at once with a 4xx status and has made no lookup and no
\* completion call and stored no User and no ChatEntry.
C6_ValidationNoEffect ==
    \A i \in DOMAIN reqs :
       FailsValidation(i) =>
          /\ IsDone(i)
          /\ reqs[i].res.status \in 400..499
          /\ reqs[i].calls = <<>>
          /\ reqs[i].provider = "none"
          /\ StoredBy(i) = {}
          /\ LoggedBy(i) = {}

\* a chat request with a username and no message and a register request
\* with a field missing have been refused
C6_Witness ==
    \E i \in Requests("chat"), j \in Requests("register") :
       /\ FailsValidation(i) /\ FailsValidation(j)
       /\ NonEmpty(reqs[i].body, "username")
       /\ reqs[i].res.status = 400 /\ reqs[j].res.status = 400

\* history requests that carry a username
HistoriesWithUsername ==
    {i \in Requests("history") : NonEmpty(reqs[i].body, "username")}

\* C8: a history request without a username is answered at once with
\* success and the empty sequence, without a query of the store, whether the
\* store is available or not.
C8_NoUsernameEmpty ==
    \A i \in Requests("history") \ HistoriesWithUsername :
       /\ IsDone(i)
       /\ reqs[i].res = Res(200, [list |-> <<>>])
       /\ reqs[i].calls = <<>>
       /\ reqs[i].err = "none"

\* a history request without a username arrived while the store was
\* unavailable
C8_Witness ==
    \E i \in Requests("history") \ HistoriesWithUsername :
       /\ ~reqs[i].at.up
       /\ reqs[i].res.status = 200

\* chat requests with a message and a username that were answered with
\* success
LoggedChats ==
    {i \in ChatsWithMessage :
       /\ NonEmpty(reqs[i].body, "username")
       /\ IsDone(i)
       /\ reqs[i].res.status = 200}

\* the ids of the entries of a history response
ListIds(h) ==
    {reqs[h].res.body.list[k].id : k \in DOMAIN reqs[h].res.body.list}

\* history requests with a username that the store answered
AnsweredHistories ==
    {h \in HistoriesWithUsername : IsDone(h) /\ reqs[h].res.status = 200}

\* C9 as claimed: whenever a chat request with a username has been answered
\* with success its ChatEntry is in the conversation log, and every history
\* request for that username that arrives after the answer returns the
\* entry.
C9_Original ==
    /\ \A i \in LoggedChats : Cardinality(LoggedBy(i)) = 1
    /\ \A h \in HistoriesWithUsername :
          IsDone(h) =>
             \A i \in reqs[h].at.after \cap LoggedChats :
                UsernameOf(i) = UsernameOf(h) => i \in ListIds(h)

\* C9 amended: whenever a chat request with a username has been answered
\* with success its ChatEntry, carrying the reply that was sent, is in the
\* conversation log, and every history request for that username that
\* arrives after the answer and is served by the store returns the entry (a
\* history request that finds the store unavailable returns the empty
\* sequence with a 5xx status).
C9_LoggedBeforeResponse ==
    /\ \A i \in LoggedChats :
          /\ Cardinality(LoggedBy(i)) = 1
          /\ \A d \in LoggedBy(i) : d.bot = reqs[i].res.body.reply
    /\ \A h \in AnsweredHistories :
          \A i \in reqs[h].at.after \cap LoggedChats :
             UsernameOf(i) = UsernameOf(h) => i \in ListIds(h)
    /\ \A h \in HistoriesWithUsername \ AnsweredHistories :
          IsDone(h) =>
             /\ reqs[h].err = "unavailable"
             /\ reqs[h].res = Res(500, [list |-> <<>>])

\* a history request arrived after the answer of a chat of its username and
\* returned that chat's entry
C9_Witness ==
    \E h \in AnsweredHistories :
       \E i \in reqs[h].at.after \cap LoggedChats :
          /\ UsernameOf(i) = UsernameOf(h)
          /\ i \in ListIds(h)

\* the register requests for username u that passed the existence check
PassedCheck(u) ==
    {i \in ValidRegisters :
       /\ UsernameOf(i) = u
       /\ Len(reqs[i].calls) >= 2
       /\ reqs[i].calls[2] = "bcrypt.hash"}

AllUsernames == {UsernameOf(i) : i \in ValidRegisters}

\* C10 as claimed, for requests whose store operations all went through:
\* when two or more register requests for one unregistered username all pass
\* the existence check, exactly one of them is answered with success and
\* exactly one User is stored; the others are answered with a failure and
\* store nothing; and never are two register requests for one username
\* answered with success.
C10_OverlappingRegisters ==
    \A u \in AllUsernames :
       /\ Cardinality({i \in ValidRegisters :
                         UsernameOf(i) = u /\ Succeeded(i)}) <= 1
       /\ LET G == PassedCheck(u)
          IN (/\ Cardinality(G) >= 2
              /\ \A i \in G : IsDone(i) /\ reqs[i].err # "unavailable") =>
                /\ Cardinality({i \in G : Succeeded(i)}) = 1
                /\ Cardinality(Matching(users, u)) = 1
                /\ \A i \in G : ~Succeeded(i) =>
                      (~reqs[i].res.body.success /\ StoredBy(i) = {})

\* the chat requests of the username of history request h that had been
\* answered with success when h arrived
CompletedBefore(h) ==
    {j \in reqs[h].at.after \cap LoggedChats : UsernameOf(j) = UsernameOf(h)}

AscendingCreatedAt(list) ==
    \A a, b \in DOMAIN list : a < b => list[a].createdAt <= list[b].createdAt

\* C7 as claimed: a history request for u served by the store returns
\* exactly the entries of the chat calls with username u that completed
\* successfully before it, one per call, with the call's message and the
\* reply returned to it, none of another username, in ascending createdAt
\* order, which is the order in which the prompts were submitted.
C7_Original ==
    \A h \in AnsweredHistories :
       LET list == reqs[h].res.body.list
       IN /\ Len(list) = Cardinality(CompletedBefore(h))
          /\ ListIds(h) = CompletedBefore(h)
          /\ \A k \in DOMAIN list :
                /\ list[k].username = UsernameOf(h)
                /\ list[k].user = reqs[list[k].id].body.message
                /\ list[k].bot = reqs[list[k].id].res.body.reply
          /\ AscendingCreatedAt(list)
          /\ \A a, b \in DOMAIN list : a < b => list[a].id < list[b].id

\* C7 amended: a history request for u served by the store returns entries
\* of the conversation log, each once, all of username u, each with the
\* message of the chat call that stored it and the reply computed for (and,
\* once answered, returned to) that call, in ascending createdAt order (equal
\* createdAt in any order; createdAt is the clock reading taken when the
\* entry is built, so the order need not be the order of submission); the
\* entries of all chat calls
\* with username u that completed successfully before the request are among
\* them, and they are exactly those when no other chat call with username u
\* exists.
C7_Amended ==
    \A h \in AnsweredHistories :
       LET list == reqs[h].res.body.list
       IN /\ \A a, b \in DOMAIN list : a # b => list[a].id # list[b].id
          /\ \A k \in DOMAIN list :
                LET j == list[k].id
                IN /\ list[k] \in chats
                   /\ j \in ChatsWithMessage
                   /\ list[k].username = UsernameOf(h)
                   /\ UsernameOf(j) = UsernameOf(h)
                   /\ list[k].user = reqs[j].body.message
                   /\ list[k].bot = reqs[j].reply
                   /\ j \in LoggedChats => list[k].bot = reqs[j].res.body.reply
          /\ CompletedBefore(h) \subseteq ListIds(h)
          /\ ({j \in ChatsWithMessage : UsernameOf(j) = UsernameOf(h)}
                 \subseteq reqs[h].at.after) =>
                ListIds(h) = CompletedBefore(h)
          /\ AscendingCreatedAt(list)

\* three chat calls of one username were answered one after the other, then
\* a history request returned their three entries in the order of
\* submission, with ascending createdAt
C7_Witness ==
    \E h \in AnsweredHistories :
       LET list == reqs[h].res.body.list
       IN /\ Len(list) = 3
          /\ ListIds(h) = CompletedBefore(h)
          /\ list[1].id < list[2].id /\ list[2].id < list[3].id
          /\ list[1].createdAt < list[2].createdAt
          /\ list[2].createdAt < list[3].createdAt
          /\ list[1].user # list[2].user

====
